---- MODULE Spec2Model ----
(***************************************************************************)
(* A model of pfs::fake_filesystem (the in-memory filesystem of pfs).      *)
(*                                                                         *)
(* The node tree is an arena: `nodes` is a sequence of node records and a   *)
(* std::shared_ptr<node> is an index into it (0 is nullptr).  A node_list   *)
(* is a sequence of indices.  A path is the sequence of the components      *)
(* that std::filesystem::path iteration yields: "C:", "\\", "a", "b" for    *)
(* C:\a\b on Windows and "/", "a", "b" for /a/b on POSIX.                   *)
(***************************************************************************)
EXTENDS Integers, Sequences, FiniteSets, TLC

\* ------------------------------------------------------------------ bounds

\* The arena holds at most this many live nodes (the meta-root and the root
\* nodes included).
MaxNodes == 5

\* A path argument has at most this many components.
MaxLen == 2

\* A run makes at most this many calls.
MaxCalls == 3

\* An iteration is followed for at most this many increment() calls.
MaxSteps == 3

\* Directory names a caller uses.
Names == {"a", "b"}

\* The components a caller's relative path is made of.
Comps == Names \cup {".", ".."}

\* The builds of the source: the _WIN32 branch and the #else branch.
Platforms == {"windows", "posix"}

\* ------------------------------------------------------------------- state

VARIABLES
  platform,    \* which build this is (fixed by Init)
  nodes,       \* the arena: Seq of [name, type, dents]; nodes[1] is meta_root_
  cwd_nodes_,  \* fake_filesystem::cwd_nodes_
  cwd_,        \* fake_filesystem::cwd_
  pc,          \* "prompt": the caller is about to call; "done": a call returned;
               \* "walk": the caller holds an iterator and steps it
  ncalls,      \* the calls made so far
  call,        \* the call that returned: [op, p, q]
  ret,         \* what it returned
  ec,          \* the caller's error_code after it
  ub,          \* the call ran into undefined behaviour
  pre,         \* the filesystem as it was when the call was made
  iter,        \* the iterator object the caller holds
  walk         \* what the caller has seen of the iteration so far

vars == <<platform, nodes, cwd_nodes_, cwd_, pc, ncalls, call, ret, ec, ub, pre, iter, walk>>

\* The filesystem part of the state, as one value.
FS == [platform |-> platform, nodes |-> nodes, cwd_nodes_ |-> cwd_nodes_, cwd_ |-> cwd_]

\* ------------------------------------------------------------ sequences

Last(s) == s[Len(s)]

Front(s) == SubSeq(s, 1, Len(s) - 1)

Range(s) == {s[i] : i \in 1..Len(s)}

IndexOf(s, x) == CHOOSE i \in 1..Len(s) : s[i] = x

\* ---------------------------------------------------------------- paths

\* path::operator< on single components: the root name is compared first, a
\* path with a root directory follows one without, then the file names are
\* compared as strings.
NameOrder == <<"", ".", "..", "a", "b", "/", "\\", "C:", "D:">>

Rank(n) == CHOOSE i \in 1..Len(NameOrder) : NameOrder[i] = n

name_less(n1, n2) == Rank(n1) < Rank(n2)

\* The root names of the Windows build: drive letters with a colon.
RootNames == {"C:", "D:"}

\* path::root_directory() of a node name is not empty
has_root_directory(n) == n \in {"/", "\\"}

\* default_root(), as components
default_root(plat) == IF plat = "windows" THEN <<"C:", "\\">> ELSE <<"/">>

\* path::is_absolute()
is_absolute(plat, p) ==
  IF plat = "windows"
  THEN Len(p) >= 2 /\ p[1] \in RootNames /\ p[2] = "\\"
  ELSE Len(p) >= 1 /\ p[1] = "/"

\* path::filename() of a path that does not end in a separator
filename(p) == IF p = <<>> \/ has_root_directory(Last(p)) THEN "" ELSE Last(p)

\* ------------------------------------------------------------ node lists

\* A node: name, type (a file_type) and dents (its children, a node_list).
\* std::make_shared<node>() value-initialises: name "", type none (0), no dents.
new_node == [name |-> "", type |-> "none", dents |-> <<>>]

\* The names of the nodes of a node_list, in order.
names_of(ns, l) == [i \in 1..Len(l) |-> ns[l[i]].name]

\* std::lower_bound over nl[first .. first+count-1] with the comparator
\* n1->name < n2->name; returns a position (first+count is the range's end).
RECURSIVE lower_bound(_, _, _, _)
lower_bound(nl, first, count, v) ==
  IF count <= 0 THEN first
  ELSE LET step == count \div 2
           mid == first + step
       IN IF name_less(nl[mid], v)
          THEN lower_bound(nl, mid + 1, count - step - 1, v)
          ELSE lower_bound(nl, first, step, v)

\* std::upper_bound, likewise.
RECURSIVE upper_bound(_, _, _, _)
upper_bound(nl, first, count, v) ==
  IF count <= 0 THEN first
  ELSE LET step == count \div 2
           mid == first + step
       IN IF ~name_less(v, nl[mid])
          THEN upper_bound(nl, mid + 1, count - step - 1, v)
          ELSE upper_bound(nl, first, step, v)

\* std::equal_range, likewise: <<first, last>>.
RECURSIVE equal_range(_, _, _, _)
equal_range(nl, first, count, v) ==
  IF count <= 0 THEN <<first, first>>
  ELSE LET half == count \div 2
           mid == first + half
       IN IF name_less(nl[mid], v)
          THEN equal_range(nl, mid + 1, count - half - 1, v)
          ELSE IF name_less(v, nl[mid])
          THEN equal_range(nl, first, half, v)
          ELSE <<lower_bound(nl, first, half, v),
                 upper_bound(nl, mid + 1, count - half - 1, v)>>

\* insert_node(l, n): the list after the call and the value returned.
insert_node(ns, l, n) ==
  LET nl == names_of(ns, l)
      it == lower_bound(nl, 1, Len(l), ns[n].name)
  IN IF it = Len(l) + 1 \/ nl[it] # ns[n].name
     THEN [l |-> SubSeq(l, 1, it - 1) \o <<n>> \o SubSeq(l, it, Len(l)), ok |-> TRUE]
     ELSE [l |-> l, ok |-> FALSE]

\* remove_node(l, n): erases the equal range of n's name.
remove_node(ns, l, n) ==
  LET r == equal_range(names_of(ns, l), 1, Len(l), ns[n].name)
  IN IF r[1] = r[2]
     THEN [l |-> l, ok |-> FALSE]
     ELSE [l |-> SubSeq(l, 1, r[1] - 1) \o SubSeq(l, r[2], Len(l)), ok |-> TRUE]

\* find_node(l, name): the node found, or 0 (nullptr).
find_node(ns, l, name) ==
  LET r == equal_range(names_of(ns, l), 1, Len(l), name)
  IN IF r[1] = r[2] THEN 0 ELSE l[r[1]]

\* ------------------------------------------------------------- traversal

\* traverse that never moves up: ".." is skipped like ".".
RECURSIVE traverse_from_without_parent(_, _, _, _)
traverse_from_without_parent(ns, node_path, p, i) ==
  IF i > Len(p) THEN [node_path |-> node_path, pit |-> i, ub |-> FALSE]
  ELSE IF p[i] \in {".", ".."} THEN traverse_from_without_parent(ns, node_path, p, i + 1)
  ELSE IF node_path = <<>> THEN [node_path |-> node_path, pit |-> i, ub |-> TRUE]
  ELSE LET next == find_node(ns, ns[Last(node_path)].dents, p[i])
       IN IF next = 0
          THEN [node_path |-> node_path, pit |-> i, ub |-> FALSE]
          ELSE traverse_from_without_parent(ns, Append(node_path, next), p, i + 1)

\* traverse(node_path, pit, pend): i is pit as a position in p, Len(p)+1 is
\* pend.  ub: node_path.back() was called on an empty vector.
RECURSIVE traverse_from(_, _, _, _)
traverse_from(ns, node_path, p, i) ==
  IF i > Len(p) THEN [node_path |-> node_path, pit |-> i, ub |-> FALSE]
  ELSE IF p[i] = "." THEN traverse_from(ns, node_path, p, i + 1)
  ELSE IF node_path = <<>> THEN [node_path |-> node_path, pit |-> i, ub |-> TRUE]
  ELSE IF p[i] = ".."
  THEN IF ~has_root_directory(ns[Last(node_path)].name)
       THEN traverse_from(ns, Front(node_path), p, i + 1)
       ELSE traverse_from(ns, node_path, p, i + 1)
  ELSE LET next == find_node(ns, ns[Last(node_path)].dents, p[i])
       IN IF next = 0
          THEN [node_path |-> node_path, pit |-> i, ub |-> FALSE]
          ELSE traverse_from(ns, Append(node_path, next), p, i + 1)

\* traverse(p): from the meta-root for an absolute path, else from cwd_nodes_.
traverse(fs, p) ==
  traverse_from(fs.nodes,
                IF is_absolute(fs.platform, p) THEN <<1>> ELSE fs.cwd_nodes_,
                p, 1)

\* pit == p.end()
at_pend(tr, p) == tr.pit > Len(p)

\* visit_nodes(n, visitor) with a counting visitor: the number of visits, or
\* -1 when the recursion does not end (a cycle of nodes below n).
RECURSIVE visit_count(_, _, _)
RECURSIVE visit_sum(_, _, _, _)
visit_count(ns, n, fuel) ==
  IF fuel = 0 THEN -1
  ELSE LET below == visit_sum(ns, ns[n].dents, 1, fuel - 1)
       IN IF below < 0 THEN -1 ELSE 1 + below

visit_sum(ns, l, i, fuel) ==
  IF i > Len(l) THEN 0
  ELSE LET c == visit_count(ns, l[i], fuel)
       IN IF c < 0 THEN -1
          ELSE LET rest == visit_sum(ns, l, i + 1, fuel)
               IN IF rest < 0 THEN -1 ELSE c + rest

\* ---------------------------------------------------- arena bookkeeping

\* The nodes some shared_ptr still reaches, in depth-first order from the
\* meta-root and then from the nodes of cwd_nodes_.
RECURSIVE live_order(_, _, _)
live_order(ns, stack, order) ==
  IF stack = <<>> THEN order
  ELSE LET n == Head(stack)
       IN IF n \in Range(order)
          THEN live_order(ns, Tail(stack), order)
          ELSE live_order(ns, ns[n].dents \o Tail(stack), Append(order, n))

\* Nodes no shared_ptr reaches are released and the live ones renumbered in
\* live_order: a node's index is its identity only, so this changes nothing
\* the program can observe.
release(ns, cwdn) ==
  LET order == live_order(ns, <<1>> \o cwdn, <<>>)
      idx(n) == IndexOf(order, n)
      map(l) == [i \in 1..Len(l) |-> idx(l[i])]
  IN [nodes |-> [i \in 1..Len(order) |-> [ns[order[i]] EXCEPT !.dents = map(@)]],
      cwd_nodes_ |-> map(cwdn)]

\* ------------------------------------------------------------ operations

ErrorCodes == {"clear", "no_such_file_or_directory", "not_a_directory",
               "directory_not_empty", "permission_denied", "not_supported"}

\* What a call leaves behind: the filesystem, the value returned, the error
\* code, and whether the call was undefined behaviour.
outcome(fs, ns, cwdn, cwd, r, e) ==
  LET rel == release(ns, cwdn)
  IN [nodes |-> rel.nodes, cwd_nodes_ |-> rel.cwd_nodes_, cwd_ |-> cwd,
      ret |-> r, ec |-> e, ub |-> FALSE]

\* A call that returns r with error code e and changes nothing.
unchanged(fs, r, e) ==
  [nodes |-> fs.nodes, cwd_nodes_ |-> fs.cwd_nodes_, cwd_ |-> fs.cwd_,
   ret |-> r, ec |-> e, ub |-> FALSE]

\* A call that ran into undefined behaviour: back() of an empty vector, or a
\* recursion without end.  What it returns is any value of the result type.
undefined(fs) ==
  [nodes |-> fs.nodes, cwd_nodes_ |-> fs.cwd_nodes_, cwd_ |-> fs.cwd_,
   ret |-> "undefined", ec |-> "undefined", ub |-> TRUE]

\* node_path.back()->type == file_type::directory
back_is_directory(fs, tr) == fs.nodes[Last(tr.node_path)].type = "directory"

\* The arena with one more node, named nm, a directory, inserted into the
\* dents of parent (insert_node's result is not looked at).
with_new_dir(ns, parent, nm) ==
  LET id == Len(ns) + 1
      ns1 == Append(ns, [name |-> nm, type |-> "directory", dents |-> <<>>])
  IN [ns1 EXCEPT ![parent].dents = insert_node(ns1, @, id).l]

\* create_directory that takes an existing directory for a missing one: it
\* reports success on it.
create_directory_again(fs, p) ==
  IF p = <<>> THEN unchanged(fs, FALSE, "no_such_file_or_directory")
  ELSE LET tr == traverse(fs, p)
       IN IF tr.ub \/ tr.node_path = <<>> THEN undefined(fs)
          ELSE IF at_pend(tr, p)
          THEN IF back_is_directory(fs, tr)
               THEN unchanged(fs, TRUE, "clear")
               ELSE unchanged(fs, FALSE, "not_a_directory")
          ELSE IF tr.pit + 1 > Len(p) /\ back_is_directory(fs, tr)
          THEN outcome(fs, with_new_dir(fs.nodes, Last(tr.node_path), filename(p)),
                       fs.cwd_nodes_, fs.cwd_, TRUE, "clear")
          ELSE unchanged(fs, FALSE, "no_such_file_or_directory")

\* bool create_directory(const path &p, error_code &ec)
create_directory(fs, p) ==
  IF p = <<>> THEN unchanged(fs, FALSE, "no_such_file_or_directory")
  ELSE LET tr == traverse(fs, p)
       IN IF tr.ub \/ tr.node_path = <<>> THEN undefined(fs)
          ELSE IF at_pend(tr, p)
          THEN IF back_is_directory(fs, tr)
               THEN unchanged(fs, FALSE, "clear")
               ELSE unchanged(fs, FALSE, "not_a_directory")
          ELSE IF tr.pit + 1 > Len(p) /\ back_is_directory(fs, tr)
          THEN outcome(fs, with_new_dir(fs.nodes, Last(tr.node_path), filename(p)),
                       fs.cwd_nodes_, fs.cwd_, TRUE, "clear")
          ELSE unchanged(fs, FALSE, "no_such_file_or_directory")

\* The loop of create_directories: one new directory per remaining
\* component, each inserted into the one made before it.
RECURSIVE make_directories(_, _, _, _)
make_directories(ns, parent_node, p, i) ==
  IF i > Len(p) THEN ns
  ELSE make_directories(with_new_dir(ns, parent_node, p[i]), Len(ns) + 1, p, i + 1)

\* bool create_directories(const path &p, error_code &ec)
create_directories(fs, p) ==
  IF p = <<>> THEN unchanged(fs, FALSE, "no_such_file_or_directory")
  ELSE LET tr == traverse(fs, p)
       IN IF tr.ub \/ tr.node_path = <<>> THEN undefined(fs)
          ELSE IF at_pend(tr, p)
          THEN IF back_is_directory(fs, tr)
               THEN unchanged(fs, FALSE, "clear")
               ELSE unchanged(fs, FALSE, "not_a_directory")
          ELSE IF ~back_is_directory(fs, tr)
          THEN unchanged(fs, FALSE, "no_such_file_or_directory")
          ELSE outcome(fs, make_directories(fs.nodes, Last(tr.node_path), p, tr.pit),
                       fs.cwd_nodes_, fs.cwd_, TRUE, "clear")

\* path::operator/= with a node name on the right
path_append(plat, p, n) ==
  IF n = "" THEN (IF filename(p) = "" THEN p ELSE Append(p, n))
  ELSE IF n \in RootNames THEN (IF p # <<>> /\ p[1] = n THEN p ELSE <<n>>)
  ELSE IF has_root_directory(n)
  THEN (IF plat = "windows" /\ p # <<>> /\ p[1] \in RootNames THEN <<p[1], n>> ELSE <<n>>)
  ELSE Append(p, n)

\* The loop of current_path(p, ec): cwd_ /= (*nit)->name from node_path.begin()+1.
RECURSIVE join_names(_, _, _, _, _)
join_names(plat, ns, node_path, i, acc) ==
  IF i > Len(node_path) THEN acc
  ELSE join_names(plat, ns, node_path, i + 1, path_append(plat, acc, ns[node_path[i]].name))

\* void current_path(const path &p, error_code &ec)
current_path(fs, p) ==
  IF p = <<>> THEN unchanged(fs, "void", "no_such_file_or_directory")
  ELSE LET tr == traverse(fs, p)
       IN IF tr.ub THEN undefined(fs)
          ELSE IF at_pend(tr, p)
          THEN IF tr.node_path = <<>> THEN undefined(fs)
               ELSE IF back_is_directory(fs, tr)
               THEN outcome(fs, fs.nodes, tr.node_path,
                            join_names(fs.platform, fs.nodes, tr.node_path, 2, <<>>),
                            "void", "clear")
               ELSE unchanged(fs, "void", "no_such_file_or_directory")
          ELSE unchanged(fs, "void", "no_such_file_or_directory")

\* remove without the test for children: a directory is unlinked with
\* whatever it holds.
remove_without_emptiness_check(fs, p) ==
  IF p = <<>> THEN unchanged(fs, FALSE, "clear")
  ELSE LET tr == traverse(fs, p)
       IN IF tr.ub THEN undefined(fs)
          ELSE IF ~at_pend(tr, p) THEN unchanged(fs, FALSE, "clear")
          ELSE IF tr.node_path = <<>> THEN undefined(fs)
          ELSE LET n == Last(tr.node_path)
               IN IF fs.nodes[n].type = "directory"
                  THEN IF has_root_directory(fs.nodes[n].name)
                       THEN unchanged(fs, FALSE, "permission_denied")
                       ELSE IF Len(tr.node_path) < 2 THEN undefined(fs)
                       ELSE LET parent == tr.node_path[Len(tr.node_path) - 1]
                            IN outcome(fs,
                                 [fs.nodes EXCEPT ![parent].dents = remove_node(fs.nodes, @, n).l],
                                 fs.cwd_nodes_, fs.cwd_, TRUE, "clear")
                  ELSE unchanged(fs, FALSE, "not_supported")

\* bool remove(const path &p, error_code &ec)
remove(fs, p) ==
  IF p = <<>> THEN unchanged(fs, FALSE, "clear")
  ELSE LET tr == traverse(fs, p)
       IN IF tr.ub THEN undefined(fs)
          ELSE IF ~at_pend(tr, p) THEN unchanged(fs, FALSE, "clear")
          ELSE IF tr.node_path = <<>> THEN undefined(fs)
          ELSE LET n == Last(tr.node_path)
               IN IF fs.nodes[n].type = "directory"
                  THEN IF has_root_directory(fs.nodes[n].name)
                       THEN unchanged(fs, FALSE, "permission_denied")
                       ELSE IF fs.nodes[n].dents # <<>>
                       THEN unchanged(fs, FALSE, "directory_not_empty")
                       ELSE IF Len(tr.node_path) < 2 THEN undefined(fs)
                       ELSE LET parent == tr.node_path[Len(tr.node_path) - 1]
                            IN outcome(fs,
                                 [fs.nodes EXCEPT ![parent].dents = remove_node(fs.nodes, @, n).l],
                                 fs.cwd_nodes_, fs.cwd_, TRUE, "clear")
                  ELSE unchanged(fs, FALSE, "not_supported")

\* std::uintmax_t remove_all(const path &p, error_code &ec); ec_in is the
\* caller's error code on entry.
remove_all(fs, p, ec_in) ==
  IF p = <<>> THEN unchanged(fs, 0, "clear")
  ELSE LET tr == traverse(fs, p)
       IN IF tr.ub THEN undefined(fs)
          ELSE IF ~at_pend(tr, p) THEN unchanged(fs, 0, "clear")
          ELSE IF tr.node_path = <<>> THEN undefined(fs)
          ELSE LET n == Last(tr.node_path)
               IN IF fs.nodes[n].type = "directory" /\ has_root_directory(fs.nodes[n].name)
                  THEN unchanged(fs, 0, "permission_denied")
                  ELSE IF Len(tr.node_path) < 2 THEN undefined(fs)
                  ELSE LET parent == tr.node_path[Len(tr.node_path) - 1]
                           ns1 == [fs.nodes EXCEPT ![parent].dents = remove_node(fs.nodes, @, n).l]
                           count == visit_count(ns1, n, Len(ns1) + 1)
                       IN IF count < 0 THEN undefined(fs)
                          ELSE outcome(fs, ns1, fs.cwd_nodes_, fs.cwd_, count, ec_in)

\* rename without the test for an existing destination.
rename_over_existing(fs, old_p, new_p) ==
  IF old_p = <<>> \/ new_p = <<>> THEN unchanged(fs, "void", "no_such_file_or_directory")
  ELSE IF old_p = new_p THEN unchanged(fs, "void", "clear")
  ELSE LET old_tr == traverse(fs, old_p)
           new_tr == traverse(fs, new_p)
       IN IF old_tr.ub THEN undefined(fs)
          ELSE IF ~at_pend(old_tr, old_p)
          THEN unchanged(fs, "void", "no_such_file_or_directory")
          ELSE IF new_tr.ub THEN undefined(fs)
          ELSE IF new_tr.pit + 1 <= Len(new_p)
          THEN unchanged(fs, "void", "no_such_file_or_directory")
          ELSE IF Len(old_tr.node_path) < 2 THEN undefined(fs)
          ELSE LET n == Last(old_tr.node_path)
                   old_parent == old_tr.node_path[Len(old_tr.node_path) - 1]
                   new_parent == Last(new_tr.node_path)
                   ns1 == [fs.nodes EXCEPT ![old_parent].dents = remove_node(fs.nodes, @, n).l]
                   ns2 == [ns1 EXCEPT ![n].name = filename(new_p)]
                   ns3 == [ns2 EXCEPT ![new_parent].dents = insert_node(ns2, @, n).l]
               IN outcome(fs, ns3, fs.cwd_nodes_, fs.cwd_, "void", "clear")

\* void rename(const path &old_p, const path &new_p, error_code &ec)
rename(fs, old_p, new_p) ==
  IF old_p = <<>> \/ new_p = <<>> THEN unchanged(fs, "void", "no_such_file_or_directory")
  ELSE IF old_p = new_p THEN unchanged(fs, "void", "clear")
  ELSE LET old_tr == traverse(fs, old_p)
           new_tr == traverse(fs, new_p)
       IN IF old_tr.ub THEN undefined(fs)
          ELSE IF ~at_pend(old_tr, old_p)
          THEN unchanged(fs, "void", "no_such_file_or_directory")
          ELSE IF new_tr.ub THEN undefined(fs)
          ELSE IF at_pend(new_tr, new_p) THEN unchanged(fs, "void", "permission_denied")
          ELSE IF new_tr.pit + 1 <= Len(new_p)
          THEN unchanged(fs, "void", "no_such_file_or_directory")
          ELSE IF Len(old_tr.node_path) < 2 THEN undefined(fs)
          ELSE LET n == Last(old_tr.node_path)
                   old_parent == old_tr.node_path[Len(old_tr.node_path) - 1]
                   new_parent == Last(new_tr.node_path)
                   ns1 == [fs.nodes EXCEPT ![old_parent].dents = remove_node(fs.nodes, @, n).l]
                   ns2 == [ns1 EXCEPT ![n].name = filename(new_p)]
                   ns3 == [ns2 EXCEPT ![new_parent].dents = insert_node(ns2, @, n).l]
               IN outcome(fs, ns3, fs.cwd_nodes_, fs.cwd_, "void", "clear")

\* is_root_only: root_name is a root name and nothing else on Windows, the
\* empty path on POSIX.
is_root_only(plat, root_name) ==
  IF plat = "windows" THEN root_name \in RootNames ELSE root_name = ""

\* The body of create_root from the root node on (root_name is valid), with
\* the root node inserted without a look for an existing root.
create_root_unchecked(fs, root_name) ==
  LET ns == fs.nodes
      root_node == Len(ns) + 1
      root_dir_node == Len(ns) + 2
      ns1 == IF fs.platform = "windows"
             THEN ns \o << [name |-> root_name, type |-> "none", dents |-> <<root_dir_node>>],
                           [name |-> "\\", type |-> "directory", dents |-> <<>>] >>
             ELSE Append(ns, [new_node EXCEPT !.name = "/"])
      unset == fs.cwd_ = <<>>
      cwd1 == IF ~unset THEN fs.cwd_
              ELSE IF fs.platform = "windows" THEN <<root_name, "\\">> ELSE <<"/">>
      cwdn1 == IF ~unset THEN fs.cwd_nodes_
               ELSE IF fs.platform = "windows"
               THEN fs.cwd_nodes_ \o <<1, root_node, root_dir_node>>
               ELSE fs.cwd_nodes_ \o <<1, root_node>>
  IN outcome(fs, [ns1 EXCEPT ![1].dents = insert_node(ns1, @, root_node).l],
             cwdn1, cwd1, TRUE, "clear")

\* The body of create_root from the root node on (root_name is valid), on
\* the meta-root alone or on a filesystem that has roots already.
create_root_node(fs, root_name) ==
  LET ns == fs.nodes
      root_node == Len(ns) + 1
      root_dir_node == Len(ns) + 2
      ns1 == IF fs.platform = "windows"
             THEN ns \o << [name |-> root_name, type |-> "none", dents |-> <<root_dir_node>>],
                           [name |-> "\\", type |-> "directory", dents |-> <<>>] >>
             ELSE Append(ns, [new_node EXCEPT !.name = "/"])
      unset == fs.cwd_ = <<>>
      cwd1 == IF ~unset THEN fs.cwd_
              ELSE IF fs.platform = "windows" THEN <<root_name, "\\">> ELSE <<"/">>
      cwdn1 == IF ~unset THEN fs.cwd_nodes_
               ELSE IF fs.platform = "windows"
               THEN fs.cwd_nodes_ \o <<1, root_node, root_dir_node>>
               ELSE fs.cwd_nodes_ \o <<1, root_node>>
      existing_root == find_node(ns1, ns1[1].dents, ns1[root_node].name)
  IN IF existing_root # 0
     THEN outcome(fs, ns1, cwdn1, cwd1, FALSE, "clear")
     ELSE outcome(fs, [ns1 EXCEPT ![1].dents = insert_node(ns1, @, root_node).l],
                  cwdn1, cwd1, TRUE, "clear")

\* bool create_root(const path &root_name): throws std::invalid_argument
\* unless root_name is a root name only.
create_root(fs, root_name) ==
  IF ~is_root_only(fs.platform, root_name)
  THEN unchanged(fs, "invalid_argument", "clear")
  ELSE create_root_node(fs, root_name)

\* fake_filesystem(): the meta-root, then create_root of the default root name.
constructed(plat) ==
  create_root([platform |-> plat, nodes |-> <<new_node>>, cwd_nodes_ |-> <<>>, cwd_ |-> <<>>],
              IF plat = "windows" THEN "C:" ELSE "")

\* ------------------------------------------------------------ iterators
\* An iterator object is a record of the members of fake_directory_iterator
\* (kind "flat") or fake_recursive_directory_iterator (kind "recursive").  A
\* vector iterator is the node that owns the vector and an index into its
\* dents; a range is such a pair of iterators into one vector.  The flat
\* iterator's dent_iter_ is range_.first.

\* path::parent_path()
parent_path(p) ==
  IF p = <<>> THEN <<>>
  ELSE IF Last(p) \in {"/", "\\"} \cup RootNames THEN p
  ELSE Front(p)

\* The range of a default-constructed iterator: begin() and end() of its own
\* empty node_path_.
NoRange == [n |-> 0, first |-> 1, last |-> 1]

\* dents.begin(), dents.end() of node n
dents_range(ns, n) == [n |-> n, first |-> 1, last |-> Len(ns[n].dents) + 1]

\* The default constructors: what the factories return on an error.
end_iterator(kind) ==
  [kind |-> kind, path_ |-> <<>>, node_path_ |-> <<>>, range_ |-> NoRange,
   stack_ |-> <<>>, dent_path_ |-> <<>>, dent_type_ |-> "none",
   recursion_pending_ |-> TRUE, depth_ |-> 0]

NoIterator == end_iterator("none")

\* bool at_end() const, of either class
at_end(ns, i) ==
  IF i.kind = "flat"
  THEN i.node_path_ # <<>> /\ i.range_.first = Len(ns[Last(i.node_path_)].dents) + 1
  ELSE i.range_.first = i.range_.last

\* node &cur(), *dent_iter_: the node the iterator stands on
cur(ns, i) == ns[i.range_.n].dents[i.range_.first]

\* void refresh()
refresh(plat, ns, i) ==
  IF at_end(ns, i) THEN i
  ELSE [i EXCEPT !.dent_path_ = path_append(plat, i.path_, ns[cur(ns, i)].name),
                 !.dent_type_ = ns[cur(ns, i)].type]

\* The constructors from a path and its node_path.
constructed_iterator(plat, ns, kind, p, node_path) ==
  refresh(plat, ns, [end_iterator(kind) EXCEPT !.path_ = p, !.node_path_ = node_path,
                                               !.range_ = dents_range(ns, Last(node_path))])

\* directory_iterator(p, ec) and recursive_directory_iterator(p, ec): the
\* iterator returned, the error code, and whether the call is undefined.
open_iterator(fs, kind, p) ==
  LET tr == traverse(fs, p)
      failed(e) == [it |-> end_iterator(kind), ec |-> e, ub |-> FALSE]
  IN IF p = <<>> THEN failed("no_such_file_or_directory")
     ELSE IF tr.ub THEN [it |-> end_iterator(kind), ec |-> "undefined", ub |-> TRUE]
     ELSE IF ~at_pend(tr, p) THEN failed("no_such_file_or_directory")
     ELSE IF tr.node_path = <<>> THEN [it |-> end_iterator(kind), ec |-> "undefined", ub |-> TRUE]
     ELSE IF ~back_is_directory(fs, tr) THEN failed("not_a_directory")
     ELSE [it |-> constructed_iterator(fs.platform, fs.nodes, kind, p, tr.node_path),
           ec |-> "clear", ub |-> FALSE]

\* fake_directory_iterator::increment(): the iterator after it, and whether
\* the call is undefined (++ on a singular or past-the-end vector iterator).
directory_increment(plat, ns, i) ==
  IF i.node_path_ = <<>> \/ at_end(ns, i) THEN [it |-> i, ub |-> TRUE]
  ELSE [it |-> refresh(plat, ns, [i EXCEPT !.range_.first = @ + 1]), ub |-> FALSE]

\* The step up of increment and pop without its --depth_.
ascend_keeping_depth(i) ==
  [i EXCEPT !.path_ = parent_path(@), !.range_ = Last(i.stack_), !.stack_ = Front(@)]

\* path_ = path_.parent_path(); range_ = stack_.back(); stack_.pop_back();
\* --depth_
ascend(i) ==
  [i EXCEPT !.path_ = parent_path(@), !.range_ = Last(i.stack_),
            !.stack_ = Front(@), !.depth_ = @ - 1]

\* while (range_.first == range_.second && !stack_.empty()) ascend
RECURSIVE unwind(_)
unwind(i) ==
  IF i.range_.first = i.range_.last /\ i.stack_ # <<>> THEN unwind(ascend(i)) ELSE i

\* increment(ec) without its recursion_pending_ = true.
recursive_increment_keeping_pending(plat, ns, i) ==
  IF at_end(ns, i) THEN [it |-> i, ub |-> TRUE]
  ELSE LET c == cur(ns, i)
           stepped ==
             IF ns[c].type = "directory" /\ ns[c].dents # <<>> /\ i.recursion_pending_
             THEN [i EXCEPT !.path_ = path_append(plat, @, ns[c].name),
                            !.stack_ = Append(@, [i.range_ EXCEPT !.first = @ + 1]),
                            !.depth_ = @ + 1,
                            !.range_ = dents_range(ns, c)]
             ELSE unwind([i EXCEPT !.range_.first = @ + 1])
       IN [it |-> refresh(plat, ns, stepped), ub |-> FALSE]

\* fake_recursive_directory_iterator::increment(ec): at the end it goes on to
\* cur(), which dereferences range_.second.
recursive_increment(plat, ns, i) ==
  IF at_end(ns, i) THEN [it |-> i, ub |-> TRUE]
  ELSE LET c == cur(ns, i)
           stepped ==
             IF ns[c].type = "directory" /\ ns[c].dents # <<>> /\ i.recursion_pending_
             THEN [i EXCEPT !.path_ = path_append(plat, @, ns[c].name),
                            !.stack_ = Append(@, [i.range_ EXCEPT !.first = @ + 1]),
                            !.depth_ = @ + 1,
                            !.range_ = dents_range(ns, c)]
             ELSE unwind([i EXCEPT !.range_.first = @ + 1])
       IN [it |-> [refresh(plat, ns, stepped) EXCEPT !.recursion_pending_ = TRUE],
           ub |-> FALSE]

\* fake_recursive_directory_iterator::pop(ec) with the loop taken once: it
\* goes up one level whether or not that level has entries left.
pop_one_level(plat, ns, i) ==
  refresh(plat, ns,
          IF i.stack_ = <<>>
          THEN [i EXCEPT !.range_.first = i.range_.last, !.depth_ = 0]
          ELSE ascend(i))

\* fake_recursive_directory_iterator::pop(ec)
pop(plat, ns, i) ==
  refresh(plat, ns,
          IF i.stack_ = <<>>
          THEN [i EXCEPT !.range_.first = i.range_.last, !.depth_ = 0]
          ELSE unwind(ascend(i)))

\* fake_recursive_directory_iterator::disable_recursion_pending()
disable_recursion_pending(i) == [i EXCEPT !.recursion_pending_ = FALSE]

\* The non-empty directories among the nodes of S: those increment() steps
\* into.
nonempty_directories(ns, S) ==
  {d \in S \ {0} : ns[d].type = "directory" /\ ns[d].dents # <<>>}

\* --------------------------------------------------------------- inputs

RECURSIVE SeqsOfLen(_, _)
SeqsOfLen(S, n) ==
  IF n = 0 THEN {<<>>}
  ELSE {Append(s, x) : s \in SeqsOfLen(S, n - 1), x \in S}

SeqsUpTo(S, n) == UNION {SeqsOfLen(S, k) : k \in 0..n}

\* The path arguments of at most len components: the empty path, the
\* relative paths, and default_root() followed by components.
PathsOf(plat, len) ==
  SeqsUpTo(Comps, len)
    \cup {default_root(plat) \o s : s \in SeqsUpTo(Comps, len - Len(default_root(plat)))}

PathTable == [plat \in Platforms |-> [len \in 0..(MaxLen + 1) |-> PathsOf(plat, len)]]

\* The path arguments of a caller that stays below the current directory:
\* the empty path and the relative paths without "..".
PathsBelow(len) == SeqsUpTo(Names \cup {"."}, len)

BelowTable == [len \in 0..(MaxLen + 1) |-> PathsBelow(len)]

\* The value of the caller's error_code on entry, where the call reads it.
EntryCodes == {"clear", "not_supported"}

NoCall == [op |-> "none", p |-> <<>>, q |-> <<>>, ec_in |-> "clear"]

\* The scope of a specification: how many calls a run makes, how many nodes
\* the arena holds, how long a path argument is, whether the caller stays to
\* look at the results of a call, and whether it passes paths below the
\* current directory only.  Spec is explored within Scope; SpecWide looks
\* one node and one component further.
Scope ==
  [calls |-> MaxCalls, nodes |-> MaxNodes, len |-> MaxLen, results |-> TRUE,
   below |-> FALSE]

WideScope ==
  [calls |-> MaxCalls, nodes |-> MaxNodes + 1, len |-> MaxLen + 1, results |-> TRUE,
   below |-> FALSE]

\* SpecRoots adds create_root to the calls, one call less and one node more
\* than Scope.
RootsScope ==
  [calls |-> MaxCalls - 1, nodes |-> MaxNodes + 1, len |-> MaxLen, results |-> TRUE,
   below |-> FALSE]

\* SpecWalk builds a tree within the wide scope and then opens an iterator
\* on it and steps it; SpecWalkWide builds trees of one node more with one
\* call less, with the paths of a caller that stays below the current
\* directory.
WalkScope ==
  [calls |-> MaxCalls, nodes |-> MaxNodes + 1, len |-> MaxLen + 1, results |-> FALSE,
   below |-> FALSE]

WalkWideScope ==
  [calls |-> MaxCalls - 1, nodes |-> MaxNodes + 2, len |-> MaxLen + 1, results |-> FALSE,
   below |-> TRUE]

\* The paths an iterator is opened on; a caller that stays below its working
\* directory opens it on that directory or on a child of it.
WalkStarts(b, plat) ==
  IF b.below THEN {<<>>, <<".">>, <<"a">>}
  ELSE {<<>>, <<".">>, <<"a">>, <<"b">>, <<"a", "a">>, default_root(plat)}

\* The caller's record of an iteration: the entries seen while only
\* increment() was called (plain), the directories stepped over after
\* disable_recursion_pending() that increment() would have stepped into,
\* the number of increment() calls made, and the last call.
NoStep == [op |-> "none", depth |-> 0]

NoWalk == [visited |-> <<>>, plain |-> TRUE, skipped |-> {}, steps |-> 0, last |-> NoStep]

\* -------------------------------------------------------------- actions

Init ==
  /\ platform \in Platforms
  /\ nodes = constructed(platform).nodes
  /\ cwd_nodes_ = constructed(platform).cwd_nodes_
  /\ cwd_ = constructed(platform).cwd_
  /\ pc = "prompt"
  /\ ncalls = 0
  /\ call = NoCall
  /\ ret = "void"
  /\ ec = "clear"
  /\ ub = FALSE
  /\ pre = FS
  /\ iter = NoIterator
  /\ walk = NoWalk

\* The caller makes call c, which leaves r behind.  Where the scope keeps
\* results, the caller stays to look at them; where it does not, the call
\* builds the tree and the caller is back at the prompt, unless the call
\* was undefined.
Returns(b, c, r) ==
  /\ Len(r.nodes) <= b.nodes
  /\ Len(r.cwd_nodes_) <= b.nodes
  /\ nodes' = r.nodes
  /\ cwd_nodes_' = r.cwd_nodes_
  /\ cwd_' = r.cwd_
  /\ ncalls' = ncalls + 1
  /\ IF b.results
     THEN /\ ret' = r.ret
          /\ ec' = r.ec
          /\ ub' = r.ub
          /\ call' = c
          /\ pre' = FS
          /\ pc' = "done"
     ELSE /\ ~r.ub
          /\ ret' = "void"
          /\ ec' = "clear"
          /\ ub' = FALSE
          /\ call' = NoCall
          /\ pre' = [FS EXCEPT !.nodes = r.nodes, !.cwd_nodes_ = r.cwd_nodes_, !.cwd_ = r.cwd_]
          /\ pc' = "prompt"
  /\ UNCHANGED <<platform, iter, walk>>

\* The caller is at the prompt and has calls left.
CanCall(b) == pc = "prompt" /\ ncalls < b.calls

\* The path arguments of at most len components that the scope's caller
\* passes.
Paths(b, len) == IF b.below THEN BelowTable[len] ELSE PathTable[platform][len]

CreateDirectory(b) ==
  /\ CanCall(b)
  /\ \E p \in Paths(b, b.len) :
       Returns(b, [NoCall EXCEPT !.op = "create_directory", !.p = p],
               create_directory(FS, p))

CreateDirectories(b) ==
  /\ CanCall(b)
  /\ \E p \in Paths(b, b.len) :
       Returns(b, [NoCall EXCEPT !.op = "create_directories", !.p = p],
               create_directories(FS, p))

CurrentPath(b) ==
  /\ CanCall(b)
  /\ \E p \in Paths(b, b.len) :
       Returns(b, [NoCall EXCEPT !.op = "current_path", !.p = p],
               current_path(FS, p))

Remove(b) ==
  /\ CanCall(b)
  /\ \E p \in Paths(b, b.len) :
       Returns(b, [NoCall EXCEPT !.op = "remove", !.p = p], remove(FS, p))

RemoveAll(b) ==
  /\ CanCall(b)
  /\ \E p \in Paths(b, b.len), e \in EntryCodes :
       Returns(b, [NoCall EXCEPT !.op = "remove_all", !.p = p, !.ec_in = e],
               remove_all(FS, p, e))

\* The two paths of a rename have b.len components in all.
Rename(b) ==
  /\ CanCall(b)
  /\ \E old_p \in Paths(b, b.len) :
       \E new_p \in Paths(b, b.len - Len(old_p)) :
         Returns(b, [NoCall EXCEPT !.op = "rename", !.p = old_p, !.q = new_p],
                 rename(FS, old_p, new_p))

\* The caller is done with the results of the call and goes on to the next.
\* After undefined behaviour there is no next call to speak of.
NextCall ==
  /\ pc = "done"
  /\ ~ub
  /\ pc' = "prompt"
  /\ call' = NoCall
  /\ ret' = "void"
  /\ ec' = "clear"
  /\ pre' = FS
  /\ UNCHANGED <<platform, nodes, cwd_nodes_, cwd_, ub, ncalls, iter, walk>>

NextIn(b) ==
  \/ CreateDirectory(b)
  \/ CreateDirectories(b)
  \/ CurrentPath(b)
  \/ Remove(b)
  \/ RemoveAll(b)
  \/ Rename(b)
  \/ NextCall

Next == NextIn(Scope)

NextWide == NextIn(WideScope)

Spec == Init /\ [][Next]_vars

SpecWide == Init /\ [][NextWide]_vars

\* The arguments of create_root: the empty path, two root names, and a
\* name that is no root name.
RootArgs == {"", "C:", "D:", "a"}

CreateRoot(b) ==
  /\ CanCall(b)
  /\ \E n \in RootArgs :
       Returns(b, [NoCall EXCEPT !.op = "create_root", !.p = IF n = "" THEN <<>> ELSE <<n>>],
               create_root(FS, n))

NextRoots ==
  \/ NextIn(RootsScope)
  \/ CreateRoot(RootsScope)

SpecRoots == Init /\ [][NextRoots]_vars

\* The node the iterator stands on, 0 if it stands on none.
entry(ns, i) == IF i.node_path_ = <<>> \/ at_end(ns, i) THEN 0 ELSE cur(ns, i)

\* What the caller notes of the call op it makes on iterator i: its name,
\* and of a pop() the depth it was called at.
step_of(op, i) == [op |-> op, depth |-> IF op = "pop" THEN i.depth_ ELSE 0]

\* The entries seen, with the one iterator i shows now.
seen(visited, i) ==
  IF entry(nodes, i) = 0 THEN visited
  ELSE Append(visited, [path |-> i.dent_path_, node |-> entry(nodes, i)])

\* The caller has built the tree with the calls of the scope: a call that
\* fails changes nothing, so every tree of fewer calls is among them.
CanOpen(b) == pc = "prompt" /\ ncalls = b.calls

\* The caller asks for an iterator of the given kind on one of the paths.
Opens(b, kind, op) ==
  /\ \E p \in WalkStarts(b, platform) :
       LET o == open_iterator(FS, kind, p)
       IN /\ iter' = o.it
          /\ ec' = o.ec
          /\ ub' = o.ub
          /\ walk' = [NoWalk EXCEPT !.visited = seen(<<>>, o.it), !.last = step_of("open", o.it)]
          /\ call' = [NoCall EXCEPT !.op = op, !.p = p]
  /\ ret' = "void"
  /\ pre' = FS
  /\ pc' = "walk"
  /\ UNCHANGED <<platform, nodes, cwd_nodes_, cwd_, ncalls>>

DirectoryIterator(b) ==
  /\ CanOpen(b)
  /\ Opens(b, "flat", "directory_iterator")

RecursiveDirectoryIterator(b) ==
  /\ CanOpen(b)
  /\ Opens(b, "recursive", "recursive_directory_iterator")

\* The caller holds an iterator.
CanStep == pc = "walk" /\ ~ub

\* A call on the iterator leaves r behind; plain says whether it was an
\* increment().
Steps(op, r, plain) ==
  /\ iter' = r.it
  /\ ub' = r.ub
  /\ walk' = [visited |-> IF walk.plain /\ plain /\ ~r.ub THEN seen(walk.visited, r.it) ELSE <<>>,
              plain |-> walk.plain /\ plain,
              skipped |-> IF op = "increment" /\ ~iter.recursion_pending_
                          THEN walk.skipped \cup nonempty_directories(nodes, {entry(nodes, iter)})
                          ELSE walk.skipped,
              steps |-> IF plain THEN walk.steps + 1 ELSE walk.steps,
              last |-> step_of(op, iter)]
  /\ UNCHANGED <<platform, nodes, cwd_nodes_, cwd_, pc, ncalls, call, ret, ec, pre>>

Increment ==
  /\ CanStep
  /\ walk.steps < MaxSteps
  /\ iter.kind \in {"flat", "recursive"}
  /\ Steps("increment",
           IF iter.kind = "flat" THEN directory_increment(platform, nodes, iter)
           ELSE recursive_increment(platform, nodes, iter),
           TRUE)

Pop ==
  /\ CanStep
  /\ iter.kind = "recursive"
  /\ Steps("pop", [it |-> pop(platform, nodes, iter), ub |-> FALSE], FALSE)

DisableRecursionPending ==
  /\ CanStep
  /\ iter.kind = "recursive"
  /\ Steps("disable_recursion_pending",
           [it |-> disable_recursion_pending(iter), ub |-> FALSE], FALSE)

NextWalkIn(b) ==
  \/ CreateDirectory(b)
  \/ CreateDirectories(b)
  \/ CurrentPath(b)
  \/ Remove(b)
  \/ RemoveAll(b)
  \/ Rename(b)
  \/ DirectoryIterator(b)
  \/ RecursiveDirectoryIterator(b)
  \/ Increment
  \/ Pop
  \/ DisableRecursionPending

NextWalk == NextWalkIn(WalkScope)

NextWalkWide == NextWalkIn(WalkWideScope)

SpecWalk == Init /\ [][NextWalk]_vars

SpecWalkWide == Init /\ [][NextWalkWide]_vars

\* ------------------------------------------------------------- queries
\* A query is given as the set of values the call can return: one value,
\* or every value of the result type where the call is undefined behaviour.

FileTypes == {"none", "not_found", "directory"}

\* bool exists(const path &p, error_code &ec)
exists(fs, p) ==
  IF p = <<>> THEN {FALSE}
  ELSE LET tr == traverse(fs, p)
       IN IF tr.ub THEN BOOLEAN ELSE {at_pend(tr, p)}

\* bool is_directory(const path &p, error_code &ec)
is_directory(fs, p) ==
  IF p = <<>> THEN {FALSE}
  ELSE LET tr == traverse(fs, p)
       IN IF tr.ub THEN BOOLEAN
          ELSE IF ~at_pend(tr, p) THEN {FALSE}
          ELSE IF tr.node_path = <<>> THEN BOOLEAN
          ELSE {back_is_directory(fs, tr)}

\* file_status status(const path &p, error_code &ec): the type reported
status(fs, p) ==
  LET tr == traverse(fs, p)
  IN IF tr.ub THEN FileTypes
     ELSE IF ~at_pend(tr, p) THEN {"not_found"}
     ELSE IF tr.node_path = <<>> THEN FileTypes
     ELSE {fs.nodes[Last(tr.node_path)].type}

\* The loop of absolute(p, ec) over the components of p: ".." pops
\* path_parts unless its last element has a root directory, "." is skipped,
\* any other component is pushed.  ub: back() of an empty vector.
RECURSIVE absolute_parts(_, _, _)
absolute_parts(path_parts, p, i) ==
  IF i > Len(p) THEN [parts |-> path_parts, ub |-> FALSE]
  ELSE IF p[i] = ".."
  THEN IF path_parts = <<>> THEN [parts |-> path_parts, ub |-> TRUE]
       ELSE IF ~has_root_directory(Last(path_parts))
       THEN absolute_parts(Front(path_parts), p, i + 1)
       ELSE absolute_parts(path_parts, p, i + 1)
  ELSE IF p[i] # "." THEN absolute_parts(Append(path_parts, p[i]), p, i + 1)
  ELSE absolute_parts(path_parts, p, i + 1)

\* std::for_each(path_parts.begin() + 1, path_parts.end(), ret /= q)
RECURSIVE join_parts(_, _, _, _)
join_parts(plat, path_parts, i, acc) ==
  IF i > Len(path_parts) THEN acc
  ELSE join_parts(plat, path_parts, i + 1, path_append(plat, acc, path_parts[i]))

\* path absolute(const path &p, error_code &ec): the path returned, the
\* error code, and whether the call was undefined behaviour (back() of an
\* empty path_parts, or begin() + 1 past its end).
absolute(fs, p) ==
  IF p = <<>> THEN [ret |-> <<>>, ec |-> "clear", ub |-> FALSE]
  ELSE IF is_absolute(fs.platform, p) THEN [ret |-> p, ec |-> "clear", ub |-> FALSE]
  ELSE LET r == absolute_parts(names_of(fs.nodes, fs.cwd_nodes_), p, 1)
       IN IF r.ub \/ r.parts = <<>> THEN [ret |-> <<>>, ec |-> "clear", ub |-> TRUE]
          ELSE [ret |-> join_parts(fs.platform, r.parts, 2, <<>>), ec |-> "clear", ub |-> FALSE]

\* The throwing form of a call: it throws filesystem_error if the
\* non-throwing form left a non-clear error code.
throws(e) == e # "clear"

\* ------------------------------------------------- what the claims speak of

\* The call that has just returned.
Returned(op) == pc = "done" /\ call.op = op

\* p resolves in fs: the traversal is defined and reaches the path's end on
\* a node.
Resolves(fs, p) ==
  LET tr == traverse(fs, p)
  IN p # <<>> /\ ~tr.ub /\ at_pend(tr, p) /\ tr.node_path # <<>>

\* The node p resolves to.
NodeAt(fs, p) == Last(traverse(fs, p).node_path)

\* The nodes below n, n itself not counted.
Descendants(ns, n) == Range(live_order(ns, <<n>>, <<>>)) \ {n}

\* The directories the meta-root reaches.
Directories(fs) == {n \in Range(live_order(fs.nodes, <<1>>, <<>>)) : fs.nodes[n].type = "directory"}

\* The relative paths made of names only: where a caller looks below a
\* directory.
Below == SeqsUpTo(Names, MaxLen)

\* The path's prefixes that are paths: the root is not split.
Prefixes(fs, p) ==
  {SubSeq(p, 1, k) : k \in (IF is_absolute(fs.platform, p)
                            THEN Len(default_root(fs.platform)) ELSE 1)..Len(p)}

\* ---------------------------------------------------------------- claims

\* C1: whenever create_directories(p) returns true with a clear error code,
\* exists(p) and is_directory(p) are true right after it and status(p) is
\* directory, whatever components p is made of.
C1_created_path_exists ==
  (Returned("create_directories") /\ ~ub /\ ret = TRUE /\ ec = "clear")
    => /\ exists(FS, call.p) = {TRUE}
       /\ is_directory(FS, call.p) = {TRUE}
       /\ status(FS, call.p) = {"directory"}

\* C2: after create_directories(p) has returned true, every prefix of p
\* exists and is a directory: the missing components were made as a chain.
C2_every_prefix_is_a_directory ==
  (Returned("create_directories") /\ ~ub /\ ret = TRUE)
    => \A q \in Prefixes(FS, call.p) :
         exists(FS, q) = {TRUE} /\ is_directory(FS, q) = {TRUE}

\* C3: after a rename(old, new) with old # new that reports no error,
\* is_directory(new) is true and is_directory(old) is false.
C3_renamed_is_at_new_only ==
  (Returned("rename") /\ call.p # call.q /\ ~ub /\ ec = "clear")
    => /\ is_directory(FS, call.q) = {TRUE}
       /\ is_directory(FS, call.p) = {FALSE}

\* C4: a rename(old, new) that reports no error moves the node with its
\* children: every path that existed below old exists below new and no more
\* below old, and the root reaches as many directories as before.
C4_rename_moves_the_subtree ==
  (Returned("rename") /\ call.p # call.q /\ ~ub /\ ec = "clear")
    => /\ \A r \in Below :
            exists(pre, call.p \o r) = {TRUE}
              => /\ exists(FS, call.q \o r) = {TRUE}
                 /\ exists(FS, call.p \o r) = {FALSE}
       /\ Cardinality(Directories(FS)) = Cardinality(Directories(pre))

\* C5: remove_all(p) on an existing directory that is not a root returns 1
\* plus the number of descendants of p, and afterwards neither p nor any
\* path that existed below p exists.
C5_remove_all_counts_and_removes ==
  (/\ Returned("remove_all")
   /\ Resolves(pre, call.p)
   /\ pre.nodes[NodeAt(pre, call.p)].type = "directory"
   /\ ~has_root_directory(pre.nodes[NodeAt(pre, call.p)].name))
    => /\ ~ub
       /\ ret = 1 + Cardinality(Descendants(pre.nodes, NodeAt(pre, call.p)))
       /\ \A r \in Below :
            exists(pre, call.p \o r) = {TRUE} => exists(FS, call.p \o r) = {FALSE}

\* The argument of the remove that has just returned named, before the
\* call, a directory node.
RemoveOfDirectory ==
  /\ Returned("remove")
  /\ Resolves(pre, call.p)
  /\ pre.nodes[NodeAt(pre, call.p)].type = "directory"

\* The remove failed with e and changed nothing.
RemoveFailedWith(e) == ~ub /\ ret = FALSE /\ ec = e /\ FS = pre

C7_empty_directory_removed ==
  (/\ RemoveOfDirectory
   /\ pre.nodes[NodeAt(pre, call.p)].dents = <<>>
   /\ ~has_root_directory(pre.nodes[NodeAt(pre, call.p)].name))
    => /\ ~ub /\ ret = TRUE /\ ec = "clear"
       /\ exists(FS, call.p) = {FALSE}
       /\ \A r \in Below :
            LET x == default_root(platform) \o r
            IN (Resolves(pre, x) /\ NodeAt(pre, x) # NodeAt(pre, call.p))
                 => exists(FS, x) = {TRUE}

\* C8: remove(p) on a path that resolves to a root directory fails with
\* permission_denied, its throwing form throws, and the tree is unchanged.
C8_root_directory_not_removed ==
  (/\ Returned("remove")
   /\ Resolves(pre, call.p)
   /\ has_root_directory(pre.nodes[NodeAt(pre, call.p)].name))
    => RemoveFailedWith("permission_denied") /\ throws(ec)

\* C9: in every state the names of the current directory's node chain, the
\* meta-root skipped, joined as a path are the stored current_path().
C9_cwd_chain_names_are_current_path ==
  ~ub => join_names(platform, nodes, cwd_nodes_, 2, <<>>) = cwd_

\* C10: the current directory's node chain starts at the meta-root, each
\* node is an entry of the one before it, and the last one is a directory;
\* so exists(current_path()) is true after any remove, remove_all or rename.
C10_cwd_chain_is_in_the_tree ==
  ~ub
    => /\ cwd_nodes_ # <<>> /\ cwd_nodes_[1] = 1
       /\ \A i \in 2..Len(cwd_nodes_) :
            cwd_nodes_[i] \in Range(nodes[cwd_nodes_[i - 1]].dents)
       /\ nodes[Last(cwd_nodes_)].type = "directory"
       /\ (pc = "done" /\ call.op \in {"remove", "remove_all", "rename"})
            => exists(FS, cwd_) = {TRUE}

\* p names a directory in fs: it is not empty and resolves to a node of
\* type directory.
NamesDirectory(fs, p) ==
  Resolves(fs, p) /\ fs.nodes[NodeAt(fs, p)].type = "directory"

\* C11: current_path(p) on a path that is empty, does not fully resolve or
\* resolves to something that is no directory reports an error, its
\* throwing form throws, and current_path() and the current directory's
\* chain are as they were before the call.
C11_failed_current_path_changes_nothing ==
  (Returned("current_path") /\ ~NamesDirectory(pre, call.p))
    => /\ ~ub
       /\ throws(ec)
       /\ cwd_ = pre.cwd_
       /\ cwd_nodes_ = pre.cwd_nodes_
       /\ nodes = pre.nodes

\* The walk in progress: an iterator of the kind was opened without error.
Walking(kind) == pc = "walk" /\ ~ub /\ ec = "clear" /\ iter.kind = kind

\* The chains of nodes that lead from n down to its descendants, n itself
\* left out, of at most k nodes.
RECURSIVE chains_below(_, _, _)
chains_below(ns, n, k) ==
  IF k = 0 THEN {}
  ELSE UNION {{<<c>>} \cup {<<c>> \o r : r \in chains_below(ns, c, k - 1)} :
              c \in Range(ns[n].dents)}

\* What a walk below the node at p is to report: each proper descendant, as
\* p joined with the names on the way down to it.
entries_below(fs, p) ==
  {[path |-> join_names(fs.platform, fs.nodes, c, 1, p), node |-> Last(c)] :
     c \in chains_below(fs.nodes, NodeAt(fs, p), Len(fs.nodes))}

\* No directory is visited twice.
once(visited) ==
  \A j, k \in 1..Len(visited) : visited[j].node = visited[k].node => j = k

\* C12: a walk that calls only increment() on recursive_directory_iterator(p)
\* visits proper descendants of p only, each as p joined with its relative
\* path, none twice, and when it is at_end() it has visited them all.
C12_plain_walk_visits_each_descendant_once ==
  (Walking("recursive") /\ walk.plain)
    => /\ Range(walk.visited) \subseteq entries_below(FS, call.p)
       /\ once(walk.visited)
       /\ at_end(nodes, iter) => Range(walk.visited) = entries_below(FS, call.p)

\* What the flat iterator on p is to show at position k of the children of
\* the directory p names.
child_entry(fs, p, k) ==
  LET c == fs.nodes[NodeAt(fs, p)].dents[k]
  IN [path |-> path_append(fs.platform, p, fs.nodes[c].name), node |-> c]

\* The names of the node_list are in ascending order: none is followed by
\* a lesser one.
ascending(ns, l) ==
  \A k \in 1..(Len(l) - 1) : ~name_less(ns[l[k + 1]].name, ns[l[k]].name)

\* C13: directory_iterator(p) on an existing directory opens without error;
\* after k increment() calls it has shown the first k+1 children of p in
\* ascending order of name and nothing else, each with path p/name, and
\* shows the type of the one it stands on; it is at_end() exactly when k is
\* the number of children, so at once on an empty directory.
C13_flat_walk_shows_children_in_order ==
  (pc = "walk" /\ ~ub /\ call.op = "directory_iterator" /\ NamesDirectory(FS, call.p))
    => LET kids == nodes[NodeAt(FS, call.p)].dents
           shown == IF walk.steps < Len(kids) THEN walk.steps + 1 ELSE Len(kids)
       IN /\ ec = "clear"
          /\ ascending(nodes, kids)
          /\ walk.steps <= Len(kids)
          /\ at_end(nodes, iter) <=> walk.steps = Len(kids)
          /\ walk.visited = [k \in 1..shown |-> child_entry(FS, call.p, k)]
          /\ ~at_end(nodes, iter)
               => /\ iter.dent_path_ = child_entry(FS, call.p, shown).path
                  /\ iter.dent_type_ = nodes[kids[shown]].type

\* The levels of i that have entries left, the current one left out: the
\* indices into stack_.
levels_left(i) == {j \in 1..Len(i.stack_) : i.stack_[j].first # i.stack_[j].last}

\* Iterator i stands on the last entry of its level, and j is the one that
\* i was stepped to: the next entry left of the nearest level above, that
\* many levels up, or the end.
next_above(ns, i, j) ==
  IF levels_left(i) = {} THEN at_end(ns, j)
  ELSE LET k == CHOOSE k \in levels_left(i) : \A l \in levels_left(i) : l <= k
       IN /\ entry(ns, j) = ns[i.stack_[k].n].dents[i.stack_[k].first]
          /\ j.depth_ = i.depth_ - (Len(i.stack_) - k + 1)

\* increment() is called on i, which stands on a non-empty directory with
\* recursion_pending() false, and leaves j.
SteppedOver(i, j) ==
  LET sibs == nodes[i.range_.n].dents
      k == i.range_.first
  IN /\ IF k < Len(sibs)
        THEN entry(nodes, j) = sibs[k + 1] /\ j.depth_ = i.depth_
        ELSE next_above(nodes, i, j)
     /\ entry(nodes, j) \notin Descendants(nodes, cur(nodes, i))

\* C14: increment() after disable_recursion_pending() on a non-empty
\* directory d moves to d's next sibling, or to the next entry left of the
\* nearest level above, or to the end; and at no step after it does the
\* walk stand on a descendant of d.
C14_disabled_directory_is_not_entered ==
  /\ [](Walking("recursive")
          => \A d \in nonempty_directories(nodes, walk.skipped) :
               entry(nodes, iter) \notin Descendants(nodes, d))
  /\ [][(/\ Walking("recursive")
         /\ ~ub'
         /\ walk'.last.op = "increment"
         /\ ~iter.recursion_pending_
         /\ nonempty_directories(nodes, {entry(nodes, iter)}) # {})
           => SteppedOver(iter, iter')]_vars

\* pop() is called on i and leaves j.
Popping(i, j) == Walking("recursive") /\ walk'.last.op = "pop" /\ iter = i /\ iter' = j

\* C15, as stated: pop() at depth n leaves the iterator at depth n-1, or at
\* the end, and that only when n is 0 or no level above has entries left.
C15_pop_moves_to_depth_below ==
  [][Popping(iter, iter')
       => IF at_end(nodes, iter')
          THEN iter.depth_ = 0 \/ levels_left(iter) = {}
          ELSE iter'.depth_ = iter.depth_ - 1]_vars

\* C15, amended: pop() at depth n leaves the iterator on the next entry left
\* of the nearest level above that has entries left, at that level's depth,
\* which is below n and is n-1 when the level next above has entries left;
\* when no level above has entries left, so when n is 0, it leaves the end
\* iterator, at depth 0.
C15_pop_moves_to_nearest_level_left ==
  [][Popping(iter, iter')
       => /\ next_above(nodes, iter, iter')
          /\ levels_left(iter) = {} => at_end(nodes, iter') /\ iter'.depth_ = 0
          /\ levels_left(iter) # {}
               => /\ ~at_end(nodes, iter')
                  /\ iter'.depth_ < iter.depth_
                  /\ Len(iter.stack_) \in levels_left(iter)
                       => iter'.depth_ = iter.depth_ - 1]_vars

\* C15's case: pop() was called at depth 2, the level above had no entries
\* left, and the walk goes on two levels up.
C15_popped_to_a_level_above ==
  /\ Walking("recursive")
  /\ walk.last.op = "pop"
  /\ walk.last.depth = 2
  /\ ~at_end(nodes, iter)
  /\ iter.depth_ = 0

\* The call returned r with error code e and changed nothing.
ReturnedUnchanged(r, e) == ~ub /\ ret = r /\ ec = e /\ FS = pre

\* C16: create_directory, and create_directories, on a path that already
\* resolves to a directory returns false with a clear error code and leaves
\* the tree as it was, at the first call and at every later one.
C16_existing_directory_not_created_again ==
  (/\ Returned("create_directory") \/ Returned("create_directories")
   /\ NamesDirectory(pre, call.p))
    => ReturnedUnchanged(FALSE, "clear")

\* C16's case: create_directory has returned from a path that names a
\* directory an earlier call made.
C16_create_directory_of_existing ==
  /\ Returned("create_directory")
  /\ NamesDirectory(pre, call.p)
  /\ pre.nodes[NodeAt(pre, call.p)].name \in Names

\* A component of p before the last one does not exist: a prefix of p, p
\* itself left out, does not resolve.
MissingBeforeLast(fs, p) ==
  \E q \in Prefixes(fs, p) \ {p} : ~Resolves(fs, q)

\* Only the last component of p is missing, under a directory: the
\* traversal stops at it, on a directory.
OnlyLastMissing(fs, p) ==
  LET tr == traverse(fs, p)
  IN p # <<>> /\ ~tr.ub /\ tr.node_path # <<>> /\ tr.pit = Len(p)
     /\ back_is_directory(fs, tr)

\* C17: create_directory(p) fails with no_such_file_or_directory and leaves
\* the tree unchanged when p is empty or a component before the last does
\* not exist; when only the last component is missing under a directory it
\* makes that one directory and returns true.
C17_create_directory_makes_one_or_none ==
  Returned("create_directory")
    => /\ (call.p = <<>> \/ MissingBeforeLast(pre, call.p))
            => ReturnedUnchanged(FALSE, "no_such_file_or_directory")
       /\ OnlyLastMissing(pre, call.p)
            => /\ ~ub /\ ret = TRUE /\ ec = "clear"
               /\ Len(nodes) = Len(pre.nodes) + 1
               /\ NamesDirectory(FS, call.p)
               /\ nodes[NodeAt(FS, call.p)].dents = <<>>

\* C18: remove(p) and remove_all(p) on a path that is empty or does not
\* fully resolve do nothing: remove returns false, remove_all returns 0,
\* the error code is clear and the tree is unchanged.
C18_remove_of_missing_is_noop ==
  (call.p = <<>> \/ ~Resolves(pre, call.p))
    => /\ Returned("remove") => ReturnedUnchanged(FALSE, "clear")
       /\ Returned("remove_all") => ReturnedUnchanged(0, "clear")

\* C19: remove_all(p) on a path that resolves to a root directory fails
\* with permission_denied, its throwing form throws, no node is removed and
\* the count returned is 0.
C19_remove_all_of_root_denied ==
  (/\ Returned("remove_all")
   /\ Resolves(pre, call.p)
   /\ has_root_directory(pre.nodes[NodeAt(pre, call.p)].name))
    => ReturnedUnchanged(0, "permission_denied") /\ throws(ec)

\* C20, as stated: rename(old, new) fails with permission_denied and
\* changes neither the tree nor the current directory whenever new exists
\* already.
C20_rename_onto_existing_denied ==
  (Returned("rename") /\ Resolves(pre, call.q))
    => ReturnedUnchanged("void", "permission_denied")

\* p is not empty and its traversal stops at a component that is missing.
StopsShort(fs, p) ==
  LET tr == traverse(fs, p)
  IN p # <<>> /\ ~tr.ub /\ ~at_pend(tr, p)

\* C20, amended: when new exists already, rename(old, new) changes neither
\* the tree nor the current directory; it fails with permission_denied if
\* old exists and is another path than new, with no_such_file_or_directory
\* if old is empty or does not exist, and reports no error if old and new
\* are the same path.
C20_rename_onto_existing_changes_nothing ==
  (Returned("rename") /\ Resolves(pre, call.q))
    => /\ (call.p # call.q /\ Resolves(pre, call.p))
            => ReturnedUnchanged("void", "permission_denied")
       /\ (call.p = <<>> \/ StopsShort(pre, call.p))
            => ReturnedUnchanged("void", "no_such_file_or_directory")
       /\ call.p = call.q => ReturnedUnchanged("void", "clear")

\* C20's case: a rename of one directory onto another that exists has
\* returned.
C20_rename_of_existing_onto_existing ==
  /\ Returned("rename")
  /\ Resolves(pre, call.p) /\ Resolves(pre, call.q)
  /\ NodeAt(pre, call.p) # NodeAt(pre, call.q)
  /\ pre.nodes[NodeAt(pre, call.p)].name \in Names
  /\ pre.nodes[NodeAt(pre, call.q)].name \in Names

\* C21: rename(old, new) fails with no_such_file_or_directory and changes
\* nothing whenever old does not exist, either path is empty, or the parent
\* of new does not exist.
C21_rename_of_missing_fails ==
  (/\ Returned("rename")
   /\ \/ call.p = <<>> \/ call.q = <<>>
      \/ ~Resolves(pre, call.p)
      \/ MissingBeforeLast(pre, call.q))
    => ReturnedUnchanged("void", "no_such_file_or_directory")

\* The current directory of fs is as current_path(p) leaves it for an
\* absolute path p: p is current_path() and the chain is p's traversal.
SetTo(fs, p) ==
  LET r == current_path(fs, p)
  IN /\ is_absolute(fs.platform, p)
     /\ ~r.ub /\ r.ec = "clear"
     /\ r.cwd_ = fs.cwd_ /\ r.cwd_nodes_ = fs.cwd_nodes_

\* The relative paths a caller passes.
Relative == SeqsUpTo(Comps, MaxLen) \ {<<>>}

\* C22: after current_path(p) has succeeded for an absolute directory p,
\* every relative path q is resolved from p: exists(q) equals exists(p/q),
\* is_directory(q) equals is_directory(p/q), and a create_directories(q)
\* that returns true has made p/q a directory.
C22_relative_paths_resolve_from_cwd ==
  /\ (Returned("current_path") /\ ~ub /\ ec = "clear" /\ is_absolute(platform, call.p))
       => \A q \in Relative :
            /\ exists(FS, q) = exists(FS, call.p \o q)
            /\ is_directory(FS, q) = is_directory(FS, call.p \o q)
  /\ (/\ Returned("create_directories") /\ ~ub /\ ret = TRUE
      /\ ~is_absolute(platform, call.p)
      /\ \E p \in PathTable[platform][MaxLen + 1] : SetTo(pre, p))
       => \A p \in PathTable[platform][MaxLen + 1] :
            SetTo(pre, p) => is_directory(FS, p \o call.p) = {TRUE}

\* A path of k ".." components.
ups(k) == [i \in 1..k |-> ".."]

\* The chain of a root directory: the meta-root, the root name where the
\* build has one, and the root directory.
root_chain_length(plat) == Len(default_root(plat)) + 1

\* C23: from any current directory a path of k ".." components, k >= 1,
\* fully resolves to a directory: to the k-th ancestor of the current
\* directory, or to the root directory when there are fewer than k
\* ancestors below it.
C23_dotdot_stops_at_root ==
  \A k \in 1..MaxNodes :
    LET p == ups(k)
        tr == traverse(FS, p)
        rest == IF Len(cwd_nodes_) - k > root_chain_length(platform)
                THEN Len(cwd_nodes_) - k ELSE root_chain_length(platform)
    IN /\ Resolves(FS, p)
       /\ is_directory(FS, p) = {TRUE}
       /\ tr.node_path = SubSeq(cwd_nodes_, 1, rest)
       /\ rest = root_chain_length(platform) => has_root_directory(nodes[Last(tr.node_path)].name)

\* The components of the current directory: the names of its chain, the
\* meta-root left out, as one path.
cwd_components(fs) == join_names(fs.platform, fs.nodes, fs.cwd_nodes_, 2, <<>>)

\* Path q followed by the components of p from the i-th on, "." dropped and
\* each ".." removing the component before it, but never a root directory.
RECURSIVE followed_by(_, _, _)
followed_by(q, p, i) ==
  IF i > Len(p) THEN q
  ELSE followed_by(IF p[i] = "." THEN q
                   ELSE IF p[i] # ".." THEN Append(q, p[i])
                   ELSE IF q = <<>> \/ has_root_directory(Last(q)) THEN q
                   ELSE Front(q),
                   p, i + 1)

\* C24: absolute(p) returns p unchanged when p is absolute; for a relative
\* p it returns the current directory's components followed by those of p,
\* with "." dropped and each ".." removing the component before it but
\* never the root directory, whether the path exists or not; absolute(".")
\* is default_root() on a fresh instance.
C24_absolute_is_lexical ==
  /\ \A p \in PathTable[platform][MaxLen] \ {<<>>} :
       LET r == absolute(FS, p)
       IN /\ ~r.ub
          /\ r.ec = "clear"
          /\ r.ret = IF is_absolute(platform, p) THEN p
                     ELSE followed_by(cwd_components(FS), p, 1)
  /\ ncalls = 0 => absolute(FS, <<".">>).ret = default_root(platform)

\* C25: status(p) reports no error for any path, so its throwing form never
\* throws; the type it returns is not_found whenever p does not fully
\* resolve and directory whenever p fully resolves to a directory.
C25_status_of_missing_is_not_found ==
  \A p \in PathTable[platform][MaxLen] :
    /\ ~Resolves(FS, p) => status(FS, p) = {"not_found"}
    /\ NamesDirectory(FS, p) => status(FS, p) = {"directory"}

\* The instance is as the constructor left it: no call has been made.
Fresh == pc = "prompt" /\ ncalls = 0

\* C26: on a freshly constructed instance, of either build, the default
\* root exists, status(default_root()) is directory, the root directory
\* has no children, and current_path() is default_root().
C26_fresh_instance_has_empty_root ==
  Fresh =>
    /\ exists(FS, default_root(platform)) = {TRUE}
    /\ status(FS, default_root(platform)) = {"directory"}
    /\ nodes[NodeAt(FS, default_root(platform))].dents = <<>>
    /\ cwd_ = default_root(platform)

\* The name of the root node that create_root makes for the argument p.
root_node_name(plat, p) == IF plat = "windows" THEN p[1] ELSE "/"

\* The root of that name among the roots of fs, 0 if there is none.
root_named(fs, name) == find_node(fs.nodes, fs.nodes[1].dents, name)

\* create_root has returned from an argument that is a root name only.
ReturnedRoot ==
  /\ Returned("create_root")
  /\ is_root_only(platform, IF call.p = <<>> THEN "" ELSE call.p[1])

after(fs, r) == [fs EXCEPT !.nodes = r.nodes, !.cwd_nodes_ = r.cwd_nodes_, !.cwd_ = r.cwd_]

\* current_path(p) has just succeeded, on a directory that is no root
\* directory: it has a parent on the chain.
WentDown ==
  /\ Returned("current_path") /\ ~ub /\ ec = "clear"
  /\ ~has_root_directory(nodes[Last(cwd_nodes_)].name)

\* exists(c) reports for every name c what it reported in fs0 once
\* current_path("..") has been called in fs.
BackUpRestores(fs0, fs) ==
  LET r == current_path(fs, <<"..">>)
  IN /\ ~r.ub
     /\ \A c \in Names : exists(after(fs, r), <<c>>) = exists(fs0, <<c>>)

\* C28, as stated: for any directory p whose parent is reachable and any
\* name c, current_path(p) and then current_path("..") leave exists(c)
\* reporting what it reported before current_path(p) was called.
C28_down_and_up_restores_exists ==
  WentDown => BackUpRestores(pre, FS)

\* p resolves to an entry of the current directory of fs: its chain is the
\* current directory's chain and one node more.
EntryOfCwd(fs, p) ==
  LET tr == traverse(fs, p)
  IN /\ Resolves(fs, p)
     /\ Len(tr.node_path) = Len(fs.cwd_nodes_) + 1
     /\ Front(tr.node_path) = fs.cwd_nodes_

\* C28, amended: for a directory p that is an entry of the current
\* directory, current_path(p) and then current_path("..") put the current
\* directory's chain back to what it was, and exists(c) reports for every
\* name c what it reported before current_path(p) was called.
C28_into_entry_and_up_restores_exists ==
  (WentDown /\ EntryOfCwd(pre, call.p))
    => /\ BackUpRestores(pre, FS)
       /\ current_path(FS, <<"..">>).ec = "clear"
       /\ current_path(FS, <<"..">>).cwd_nodes_ = pre.cwd_nodes_

\* C28's case: current_path has gone down into an entry of the current
\* directory, which has entries of its own.
C28_went_into_entry ==
  /\ WentDown /\ EntryOfCwd(pre, call.p)
  /\ call.p \in {<<"a">>, <<"b">>}
  /\ \E c \in Names : exists(pre, <<c>>) = {TRUE}
  /\ \E c \in Names : exists(FS, <<c>>) # exists(pre, <<c>>)

\* The nodes of S in ascending order of their names.
RECURSIVE sorted_by_name(_, _)
sorted_by_name(ns, S) ==
  IF S = {} THEN <<>>
  ELSE LET m == CHOOSE x \in S : \A y \in S : ~name_less(ns[y].name, ns[x].name)
       IN <<m>> \o sorted_by_name(ns, S \ {m})

\* The pre-order of the nodes below n that follows names alone: each entry
\* of n in ascending name order, followed by the pre-order below it; at
\* most k levels deep.
RECURSIVE preorder(_, _, _)
RECURSIVE preorder_of(_, _, _, _)
preorder(ns, n, k) ==
  IF k = 0 THEN <<>> ELSE preorder_of(ns, sorted_by_name(ns, Range(ns[n].dents)), 1, k)

preorder_of(ns, l, i, k) ==
  IF i > Len(l) THEN <<>>
  ELSE <<l[i]>> \o preorder(ns, l[i], k - 1) \o preorder_of(ns, l, i + 1, k)

\* The nodes in whose entries n is.
parents(ns, n) == {d \in 1..Len(ns) : n \in Range(ns[d].dents)}

\* C29: a recursive walk that uses only increment() is pre-order
\* depth-first with siblings in ascending name order: a directory is
\* visited before any of its descendants, all descendants of a directory
\* are visited before its next sibling, and the order is the one that the
\* names in the tree give.
C29_plain_walk_is_preorder_by_name ==
  (Walking("recursive") /\ walk.plain)
    => LET v == walk.visited
           start == NodeAt(FS, call.p)
           at(k) == v[k].node
       IN /\ \A k \in 1..Len(v) :
               \A d \in Descendants(nodes, start) :
                 at(k) \in Descendants(nodes, d) => \E j \in 1..(k - 1) : at(j) = d
          /\ \A j, k \in 1..Len(v) :
               (j < k /\ parents(nodes, at(j)) \cap parents(nodes, at(k)) # {})
                 => /\ name_less(nodes[at(j)].name, nodes[at(k)].name)
                    /\ Descendants(nodes, at(j)) \subseteq {at(m) : m \in (j + 1)..(k - 1)}
          /\ Len(v) <= Len(preorder(nodes, start, Len(nodes)))
          /\ [k \in 1..Len(v) |-> at(k)] = SubSeq(preorder(nodes, start, Len(nodes)), 1, Len(v))

\* The nodes below n: those its entries reach, n itself among them if it
\* lies below itself.
nodes_below(ns, n) == Range(live_order(ns, ns[n].dents, <<>>))

\* C30: every iteration ends: on any tree the filesystem operations build,
\* a flat or recursive iterator is at_end() after at most as many
\* increment() calls as the start directory has descendants, whatever
\* disable_recursion_pending() and pop() calls come in between.
C30_walk_ends_within_descendants ==
  (pc = "walk" /\ ~ub /\ ec = "clear")
    => LET n == Cardinality(nodes_below(nodes, NodeAt(FS, call.p)))
       IN /\ walk.steps <= n
          /\ walk.steps = n => at_end(nodes, iter)

\* The iterator's current range has no entry left in the tree.
exhausted(ns, i) == i.range_.first > Len(ns[i.range_.n].dents)

\* C31: after any increment(), disable_recursion_pending() and pop() calls
\* on a recursive iterator, depth() is the number of ranges saved on the
\* stack and is not negative; at_end() is true exactly when the current
\* range is exhausted and the stack is empty; and at the end depth() is 0.
C31_depth_is_stack_size ==
  Walking("recursive")
    => /\ iter.depth_ = Len(iter.stack_)
       /\ iter.depth_ >= 0
       /\ at_end(nodes, iter) <=> (exhausted(nodes, iter) /\ iter.stack_ = <<>>)
       /\ at_end(nodes, iter) => iter.depth_ = 0

\* C31's case: the iterator has gone down two levels and has come to the
\* end from there.
C31_ended_after_descent ==
  /\ Walking("recursive")
  /\ walk.plain
  /\ at_end(nodes, iter)
  /\ \E k \in 1..Len(walk.visited) : Len(walk.visited[k].path) = Len(call.p) + 2

\* The names of the directories iterator i has entered, outermost first:
\* each saved range stands one past the directory that was entered from it.
entered_names(ns, i) ==
  [j \in 1..Len(i.stack_) |-> ns[ns[i.stack_[j].n].dents[i.stack_[j].first - 1]].name]

\* Path p with the names of l joined to it, one after the other.
RECURSIVE joined(_, _, _, _)
joined(plat, p, l, j) ==
  IF j > Len(l) THEN p ELSE joined(plat, path_append(plat, p, l[j]), l, j + 1)

\* C32: whenever a recursive iterator is not at end, path() is the start path joined with the names of the directories entered and then the name of the current entry, it has depth()+1 components beyond the start path, and status().type is the type of the node at that path.
C32_path_is_start_entered_and_entry ==
  (Walking("recursive") /\ ~at_end(nodes, iter))
    => /\ iter.dent_path_
            = path_append(platform,
                          joined(platform, call.p, entered_names(nodes, iter), 1),
                          nodes[cur(nodes, iter)].name)
       /\ Len(iter.dent_path_) = Len(call.p) + iter.depth_ + 1
       /\ status(FS, iter.dent_path_) = {iter.dent_type_}

\* The caller's last call on the recursive iterator, made in this step, was op
\* and was defined.
Called(op) == Walking("recursive") /\ ~ub' /\ walk'.last.op = op

\* C33: recursion_pending() is true on a newly constructed recursive iterator and after every increment(), whether it went down, over or up; disable_recursion_pending() makes it false, and it stays false until the next increment().
C33_recursion_pending_is_one_shot ==
  /\ []((Walking("recursive") /\ walk.last.op = "open") => iter.recursion_pending_)
  /\ [][/\ Called("increment") => iter'.recursion_pending_
        /\ Called("disable_recursion_pending") => ~iter'.recursion_pending_
        /\ Called("pop") => iter'.recursion_pending_ = iter.recursion_pending_]_vars

\* C33's case: an increment() has stepped over a directory with entries
\* because recursion was disabled, and the iterator shows the next entry.
C33_incremented_after_disable ==
  /\ Walking("recursive") /\ ~at_end(nodes, iter)
  /\ walk.last.op = "increment" /\ walk.skipped # {}
  /\ iter.recursion_pending_

\* C34: in every reachable state the children of every node are in strictly ascending order of name, so no node has two children of one name.
C34_children_strictly_ascending ==
  ~ub => \A n \in 1..Len(nodes) :
           \A j \in 1..(Len(nodes[n].dents) - 1) :
             name_less(nodes[nodes[n].dents[j]].name, nodes[nodes[n].dents[j + 1]].name)

\* C35: in every reachable state default_root() exists and is a directory, whatever remove, remove_all or rename calls were made.
C35_default_root_is_a_directory ==
  ~ub => /\ exists(FS, default_root(platform)) = {TRUE}
         /\ is_directory(FS, default_root(platform)) = {TRUE}

\* C36: for every path p, the empty path included, and in every reachable state, exists(p) is true exactly when status(p).type is not not_found, and is_directory(p) is true exactly when status(p).type is directory.
C36_inspections_agree ==
  \A p \in PathTable[platform][MaxLen] \cup {<<>>} :
    /\ exists(FS, p) = {s # "not_found" : s \in status(FS, p)}
    /\ is_directory(FS, p) = {s = "directory" : s \in status(FS, p)}

\* What a call of op returns when it fails: false, the count 0, or nothing.
failure_of(op) ==
  IF op = "remove_all" THEN 0
  ELSE IF op \in {"rename", "current_path"} THEN "void"
  ELSE FALSE

\* C37: every non-throwing operation leaves the caller's error code clear whenever it succeeds, whatever the code held on entry: a non-clear error code after a call means that the call failed, having changed nothing and returned no success.
C37_nonclear_code_means_failure ==
  (pc = "done" /\ ~ub /\ ec # "clear")
    => /\ FS = pre
       /\ ret = failure_of(call.op)

\* C38: when directory_iterator(p, ec) or recursive_directory_iterator(p, ec) reports an error, the iterator it returns is at_end().
C38_failed_open_returns_end_iterator ==
  (pc = "walk" /\ ~ub /\ walk.last.op = "open" /\ ec # "clear")
    => at_end(nodes, iter)

\* C39: increment() on a recursive iterator that is already at end does nothing: the call is defined and the iterator stays as it is, at end, with depth(), path() and the stack unchanged.
C39_increment_at_end_does_nothing ==
  [][(Walking("recursive") /\ at_end(nodes, iter) /\ walk'.last.op = "increment")
       => (~ub' /\ iter' = iter)]_vars

====
